---------------------------- MODULE Spec2Model ----------------------------
(***************************************************************************)
(* The Composite pattern examples of HowProgrammingWorks/Composite.        *)
(*                                                                         *)
(*   Spec       the View hierarchy (ViewComponent, ViewComposite,          *)
(*              DecoratorComposite, PrintLeaf): add, remove, draw and      *)
(*              iteration, draw being run frame by frame on a call stack.  *)
(*   FairSpec   Spec with the running draw() always taking its next step.  *)
(*   SpecPrice  the priced items of 2-simple.js (Product, Collection):     *)
(*              the member Set and the recursive price getter.             *)
(***************************************************************************)
EXTENDS Naturals, Sequences, FiniteSets

VARIABLES
    children,   \* ViewComposite.#children, per composite object
    text,       \* PrintLeaf.text, per leaf object
    stack,      \* call stack of the draw() in progress, innermost frame last
    out,        \* console.log lines of the current (or last) call
    call,       \* the current (or last) client call: [op, self, arg]
    result,     \* "running", "ok", or the error that reached the client
    before,     \* history: children when the call started
    inserted,   \* history: per composite, the children its add calls were given
    iter,       \* the Array Iterator of the for..of loop in progress
    yielded,    \* history: the values the iterator yielded so far
    set,        \* Collection.set, per collection, in Set insertion order
    lastOp,     \* history: the last operation on the collections
    setBefore,  \* history: set when that operation started
    nops        \* history: number of client operations on the collections

viewVars  == <<children, text, stack, out, call, result, before, inserted, iter, yielded>>
priceVars == <<set, lastOp, setBefore, nops>>
vars      == <<viewVars, priceVars>>

---------------------------------------------------------------------------
(* Bounds *)

\* add calls that complete in one behaviour
MaxAdds == 3
\* frames the engine's call stack holds before it throws RangeError
MaxStack == 6
\* client operations on the collections after the usage script
MaxOps == 2

---------------------------------------------------------------------------
(* Objects of the View hierarchy *)

Leaves     == {"hello", "world"}
Bare       == {"component"}
Composites == {"helloView"}
Decorators == {"nestedView"}
Containers == Composites \cup Decorators
Nodes      == Leaves \cup Bare \cup Containers

ClassOf(n) ==
    IF n \in Leaves THEN "PrintLeaf"
    ELSE IF n \in Composites THEN "ViewComposite"
    ELSE IF n \in Decorators THEN "DecoratorComposite"
    ELSE "ViewComponent"

\* the class a class extends
Super(cls) ==
    CASE cls = "DecoratorComposite" -> "ViewComposite"
      [] cls = "ViewComposite"      -> "ViewComponent"
      [] cls = "PrintLeaf"          -> "ViewComponent"
      [] OTHER                      -> "Object"

\* the methods a class body declares
OwnMethods(cls) ==
    CASE cls = "ViewComponent"      -> {"draw"}
      [] cls = "ViewComposite"      -> {"add", "remove", "draw", "iterator"}
      [] cls = "DecoratorComposite" -> {"draw"}
      [] cls = "PrintLeaf"          -> {"draw"}
      [] OTHER                      -> {}

\* prototype chain lookup: the class whose method runs, "undefined" if none
RECURSIVE Lookup(_, _)
Lookup(cls, m) ==
    IF cls = "Object" THEN "undefined"
    ELSE IF m \in OwnMethods(cls) THEN cls
    ELSE Lookup(Super(cls), m)

\* the Array.prototype methods the code relies on
ArrayMethods == {"push", "forEach", "iterator"}

NoArg  == "none"
NoIter == [target |-> "none", idx |-> 0, done |-> FALSE]

\* new PrintLeaf(text)
LeafText == [n \in Leaves |-> n]

InitView ==
    /\ children = [c \in Containers |-> <<>>]
    /\ text = LeafText
    /\ stack = <<>>
    /\ out = <<>>
    /\ call = [op |-> "none", self |-> "none", arg |-> NoArg]
    /\ result = "ok"
    /\ before = [c \in Containers |-> <<>>]
    /\ inserted = [c \in Containers |-> <<>>]
    /\ iter = NoIter
    /\ yielded = <<>>

Idle == stack = <<>>

\* a client statement outside a for..of loop: the loop's iterator is gone
InLoop   == iter.target # "none" /\ ~iter.done
LoopOver == IF InLoop THEN iter ELSE NoIter
SeenOver == IF InLoop THEN yielded ELSE <<>>

\* the client call fails with a TypeError (undefined is not a function, or not
\* iterable): nothing else happens, and the exception leaves a loop it is thrown in
TypeErrorCall(op, self, arg) ==
    /\ call' = [op |-> op, self |-> self, arg |-> arg]
    /\ result' = "TypeError"
    /\ before' = children
    /\ out' = <<>>
    /\ iter' = NoIter
    /\ yielded' = <<>>
    /\ UNCHANGED <<children, text, stack, inserted>>

\* n.add(..), n.remove(..) or for (.. of n) on an object whose class chain has no
\* such method: the lookup gives undefined before any argument matters
CallMissing(op, n) ==
    /\ Idle
    /\ Lookup(ClassOf(n), op) = "undefined"
    /\ TypeErrorCall(op, n, NoArg)
    /\ UNCHANGED priceVars

RECURSIVE TotalLen(_, _)
TotalLen(f, S) ==
    IF S = {} THEN 0
    ELSE LET c == CHOOSE c \in S : TRUE
         IN Len(f[c]) + TotalLen(f, S \ {c})

NumAdds == TotalLen(children, Containers)

---------------------------------------------------------------------------
(* ViewComposite.add / remove *)

\* Array.prototype.unshift in place of push
Unshift(s, x) == <<x>> \o s

\* Array.prototype.push
Push(s, x) == Append(s, x)

Add(c, x) ==
    /\ Idle
    /\ Lookup(ClassOf(c), "add") = "ViewComposite"
    /\ NumAdds < MaxAdds
    /\ children' = [children EXCEPT ![c] = Push(@, x)]
    /\ inserted' = [inserted EXCEPT ![c] = Append(@, x)]
    /\ call' = [op |-> "add", self |-> c, arg |-> x]
    /\ result' = "ok"
    /\ before' = children
    /\ out' = <<>>
    /\ iter' = LoopOver
    /\ yielded' = SeenOver
    /\ UNCHANGED <<text, stack>>
    /\ UNCHANGED priceVars

\* this.#children.remove(child): the receiver is an Array
Remove(c, x) ==
    /\ Idle
    /\ Lookup(ClassOf(c), "remove") = "ViewComposite"
    /\ IF "remove" \in ArrayMethods
       THEN FALSE
       ELSE TypeErrorCall("remove", c, x)
    /\ UNCHANGED priceVars

---------------------------------------------------------------------------
(* draw *)

Frame(n, cls) == [self |-> n, cls |-> cls, pc |-> 1]
Top == stack[Len(stack)]
Pop(st) == SubSeq(st, 1, Len(st) - 1)
Advance(st) == [st EXCEPT ![Len(st)].pc = @ + 1]

\* a call that is skipped when its receiver is already being drawn
EnterGuarded(st, f) ==
    IF \E i \in 1..Len(st) : st[i].self = f.self /\ st[i].cls = f.cls
    THEN st
    ELSE Append(st, f)

\* the stack after frame f is entered from st
Enter(st, f) == Append(st, f)

\* a method call made with the stack st: RangeError once the stack is full
Invoke(st, f) ==
    IF Len(st) >= MaxStack
    THEN /\ stack' = <<>>
         /\ result' = "RangeError"
    ELSE /\ stack' = Enter(st, f)
         /\ result' = IF Len(stack') = 0 THEN "ok" ELSE "running"

\* an exception nobody catches unwinds every frame
Throw(err) ==
    /\ stack' = <<>>
    /\ result' = err

Return ==
    /\ stack' = Pop(stack)
    /\ result' = IF Len(stack) = 1 THEN "ok" ELSE "running"

\* the client calls n.draw()
Draw(n) ==
    /\ Idle
    /\ ~InLoop
    /\ iter' = NoIter
    /\ yielded' = <<>>
    /\ call' = [op |-> "draw", self |-> n, arg |-> NoArg]
    /\ before' = children
    /\ out' = <<>>
    /\ Invoke(<<>>, Frame(n, Lookup(ClassOf(n), "draw")))
    /\ UNCHANGED <<children, text, inserted>>
    /\ UNCHANGED priceVars

\* a base draw() that fails with another error
BaseDrawOther == "TypeError"

\* ViewComponent.draw
BaseDrawError == "NotImplemented"

ViewComponentDraw ==
    /\ ~Idle
    /\ Top.cls = "ViewComponent"
    /\ Throw(BaseDrawError)
    /\ UNCHANGED <<children, text, out, call, before, inserted, iter, yielded>>
    /\ UNCHANGED priceVars

\* a leaf that logs its text twice
LeafLinesTwice(n) == <<text[n], text[n]>>

\* PrintLeaf.draw
LeafLines(n) == <<text[n]>>

PrintLeafDraw ==
    /\ ~Idle
    /\ Top.cls = "PrintLeaf"
    /\ out' = out \o LeafLines(Top.self)
    /\ Return
    /\ UNCHANGED <<children, text, call, before, inserted, iter, yielded>>
    /\ UNCHANGED priceVars

\* the child forEach passes to the callback at its k-th call
ForEachChild(c, k) == children[c][k]

\* ViewComposite.draw: one turn of forEach, or its end
ViewCompositeDraw ==
    /\ ~Idle
    /\ Top.cls = "ViewComposite"
    /\ IF Top.pc <= Len(children[Top.self])
       THEN LET child == ForEachChild(Top.self, Top.pc)
            IN Invoke(Advance(stack), Frame(child, Lookup(ClassOf(child), "draw")))
       ELSE Return
    /\ UNCHANGED <<children, text, out, call, before, inserted, iter, yielded>>
    /\ UNCHANGED priceVars

\* the two markers swapped
DecoratorLineSwapped(pc) == IF pc = 1 THEN "NestedEnd" ELSE "NestedStart"

\* the line DecoratorComposite.draw logs at pc 1 (before) and pc 3 (after)
DecoratorLine(pc) == IF pc = 1 THEN "NestedStart" ELSE "NestedEnd"

\* DecoratorComposite.draw: log, super.draw(), log
DecoratorCompositeDraw ==
    /\ ~Idle
    /\ Top.cls = "DecoratorComposite"
    /\ CASE Top.pc = 1 ->
              /\ out' = Append(out, DecoratorLine(1))
              /\ stack' = Advance(stack)
              /\ result' = "running"
         [] Top.pc = 2 ->
              /\ out' = out
              /\ Invoke(Advance(stack),
                        Frame(Top.self, Lookup(Super("DecoratorComposite"), "draw")))
         [] OTHER ->
              /\ out' = Append(out, DecoratorLine(3))
              /\ Return
    /\ UNCHANGED <<children, text, call, before, inserted, iter, yielded>>
    /\ UNCHANGED priceVars

---------------------------------------------------------------------------
(* iteration: for (const child of c) *)

\* c[Symbol.iterator](): a fresh Array Iterator over #children
Iterate(c) ==
    /\ Idle
    /\ Lookup(ClassOf(c), "iterator") = "ViewComposite"
    /\ iter' = [target |-> c, idx |-> 0, done |-> FALSE]
    /\ yielded' = <<>>
    /\ call' = [op |-> "iterator", self |-> c, arg |-> NoArg]
    /\ result' = "ok"
    /\ before' = children
    /\ out' = <<>>
    /\ UNCHANGED <<children, text, stack, inserted>>
    /\ UNCHANGED priceVars

\* an iterator that walks the array from its end
IterValueReversed(c, i) == children[c][Len(children[c]) - i]

\* the element %ArrayIteratorPrototype%.next reads at index i (0-based)
IterValue(c, i) == children[c][i + 1]

\* %ArrayIteratorPrototype%.next, called by the loop
IterNext ==
    /\ Idle
    /\ InLoop
    /\ IF iter.idx >= Len(children[iter.target])
       THEN /\ iter' = [iter EXCEPT !.done = TRUE]
            /\ yielded' = yielded
       ELSE /\ iter' = [iter EXCEPT !.idx = @ + 1]
            /\ yielded' = Append(yielded, IterValue(iter.target, iter.idx))
    /\ call' = [op |-> "next", self |-> iter.target, arg |-> NoArg]
    /\ result' = "ok"
    /\ before' = children
    /\ out' = <<>>
    /\ UNCHANGED <<children, text, stack, inserted>>
    /\ UNCHANGED priceVars

---------------------------------------------------------------------------

(* Product and Collection (2-simple.js) *)

Products == {"p1", "p2", "p3", "p4", "p5", "p6", "p7"}
DemoCollections == {"electronics", "textile", "purchase"}
Collections == DemoCollections \cup {"extra"}

\* new Product(name, price): p1..p6 are the usage script's, p7 is a second
\* object with the name and the price of p2
ProductName ==
    [p \in Products |->
        CASE p = "p1" -> "Laptop"   [] p = "p2" -> "Mouse"
          [] p = "p3" -> "Keyboard" [] p = "p4" -> "HDMI cable"
          [] p = "p5" -> "Bag"      [] p = "p6" -> "Mouse pad"
          [] OTHER    -> "Mouse"]
ProductPrice ==
    [p \in Products |->
        CASE p = "p1" -> 1500 [] p = "p2" -> 25 [] p = "p3" -> 100
          [] p = "p4" -> 10   [] p = "p5" -> 50 [] p = "p6" -> 5
          [] OTHER    -> 25]

\* the items the client hands to new Collection(..) and to set.add(..)
ArgPool == {"p2", "p7", "textile"}
AddPool == {"p2", "p7", "textile", "purchase", "extra"}
ArgLists == {<<>>} \cup {<<a>> : a \in ArgPool}
                   \cup {<<a, b>> : a \in ArgPool, b \in ArgPool}

Range(s) == {s[i] : i \in 1..Len(s)}

\* members compared by their fields instead of by reference
SameFields(a, b) ==
    \/ a = b
    \/ /\ a \in Products
       /\ b \in Products
       /\ ProductName[a] = ProductName[b]
       /\ ProductPrice[a] = ProductPrice[b]

\* SameValueZero on object references
SameValueZero(a, b) == a = b

\* Set.prototype.add on the insertion-ordered list of members
SetInsert(s, x) ==
    IF \E i \in 1..Len(s) : SameValueZero(s[i], x) THEN s ELSE Append(s, x)

\* new Set(iterable): add each element in turn
RECURSIVE NewSet(_, _)
NewSet(s, args) ==
    IF args = <<>> THEN s ELSE NewSet(SetInsert(s, Head(args)), Tail(args))

\* price = item.price
Overwrite(price, p) == p

\* price += item.price
Accumulate(price, p) == price + p

Value(v)  == [ok |-> TRUE, v |-> v]
Overflow  == [ok |-> FALSE, v |-> 0]

\* get price(), on the member sets S, entered with depth frames on the stack.
\* Product: return this.productPrice.  Collection: the for..of loop.
RECURSIVE PriceOf(_, _, _), PriceLoop(_, _, _, _, _)
\* item.productPrice read in place of item.price: undefined on a Collection
FieldPrice(S, x, depth) ==
    IF x \in Products THEN Value(ProductPrice[x])
    ELSE IF depth > 0 THEN Value(0)
    ELSE PriceLoop(S, S[x], 1, 0, depth)

PriceOf(S, x, depth) ==
    IF depth >= MaxStack THEN Overflow
    ELSE IF x \in Products THEN Value(ProductPrice[x])
    ELSE PriceLoop(S, S[x], 1, 0, depth)
PriceLoop(S, members, i, price, depth) ==
    IF i > Len(members) THEN Value(price)
    ELSE LET r == PriceOf(S, members[i], depth + 1)
         IN IF ~r.ok THEN r
            ELSE PriceLoop(S, members, i + 1, Accumulate(price, r.v), depth)

\* the usage script: electronics, textile, purchase
DemoSet ==
    [c \in DemoCollections |->
        CASE c = "electronics" -> NewSet(<<>>, <<"p1", "p2", "p3", "p4">>)
          [] c = "textile"     -> NewSet(<<>>, <<"p5", "p6">>)
          [] OTHER             -> NewSet(<<>>, <<"electronics", "textile">>)]

NoOp == [op |-> "none", c |-> "none", item |-> "none", args |-> <<>>,
         value |-> Value(0)]

InitPrice ==
    /\ set = DemoSet
    /\ lastOp = NoOp
    /\ setBefore = DemoSet
    /\ nops = 0

\* new Collection("Extra", ...args)
NewCollection(args) ==
    /\ "extra" \notin DOMAIN set
    /\ nops < MaxOps
    /\ set' = [c \in DOMAIN set \cup {"extra"} |->
                 IF c = "extra" THEN NewSet(<<>>, args) ELSE set[c]]
    /\ lastOp' = [NoOp EXCEPT !.op = "new", !.c = "extra", !.args = args]
    /\ setBefore' = set
    /\ nops' = nops + 1
    /\ UNCHANGED viewVars

\* c.set.add(x)
SetAdd(c, x) ==
    /\ c \in DOMAIN set
    /\ x \in Products \cup DOMAIN set
    /\ nops < MaxOps
    /\ set' = [set EXCEPT ![c] = SetInsert(@, x)]
    /\ lastOp' = [NoOp EXCEPT !.op = "add", !.c = c, !.item = x]
    /\ setBefore' = set
    /\ nops' = nops + 1
    /\ UNCHANGED viewVars

\* c.price
ReadPrice(c) ==
    /\ c \in DOMAIN set
    /\ lastOp' = [NoOp EXCEPT !.op = "price", !.c = c, !.value = PriceOf(set, c, 0)]
    /\ setBefore' = set
    /\ UNCHANGED <<set, nops>>
    /\ UNCHANGED viewVars

---------------------------------------------------------------------------

Init == InitView /\ InitPrice

Next ==
    \/ \E c \in Nodes, x \in Nodes : Add(c, x)
    \/ \E c \in Nodes, x \in Nodes : Remove(c, x)
    \/ \E n \in Nodes, op \in {"add", "remove", "iterator"} : CallMissing(op, n)
    \/ \E n \in Nodes : Draw(n)
    \/ ViewComponentDraw
    \/ PrintLeafDraw
    \/ ViewCompositeDraw
    \/ DecoratorCompositeDraw
    \/ \E c \in Nodes : Iterate(c)
    \/ IterNext

Spec == Init /\ [][Next]_vars

\* a step of the draw() in progress
DrawStep ==
    \/ ViewComponentDraw
    \/ PrintLeafDraw
    \/ ViewCompositeDraw
    \/ DecoratorCompositeDraw

\* execution is synchronous: a call that has started keeps running
FairSpec == Spec /\ WF_vars(DrawStep)

NextPrice ==
    \/ \E args \in ArgLists : NewCollection(args)
    \/ \E c \in Collections, x \in AddPool : SetAdd(c, x)
    \/ \E c \in Collections : ReadPrice(c)

SpecPrice == Init /\ [][NextPrice]_vars

---------------------------------------------------------------------------
(* Reference definitions for the View properties *)

IsPrefix(a, b) == Len(a) <= Len(b) /\ a = SubSeq(b, 1, Len(a))

NumNodes == Cardinality(Nodes)

\* depth-first, left-to-right text of the tree the add calls built
RECURSIVE DepthFirst(_, _), DepthFirstSeq(_, _)
DepthFirst(n, fuel) ==
    IF n \in Leaves THEN <<LeafText[n]>>
    ELSE IF n \in Bare \/ fuel = 0 THEN <<>>
    ELSE IF n \in Decorators
         THEN <<"NestedStart">> \o DepthFirstSeq(inserted[n], fuel - 1) \o <<"NestedEnd">>
         ELSE DepthFirstSeq(inserted[n], fuel - 1)
DepthFirstSeq(kids, fuel) ==
    IF kids = <<>> THEN <<>>
    ELSE DepthFirst(Head(kids), fuel) \o DepthFirstSeq(Tail(kids), fuel)

Kids(n) == IF n \in Containers THEN {children[n][i] : i \in 1..Len(children[n])} ELSE {}

RECURSIVE Closure(_, _)
Closure(S, k) ==
    IF k = 0 THEN S ELSE Closure(S \cup UNION {Kids(m) : m \in S}, k - 1)

\* the nodes reachable from n through one or more child sequences
Descendants(n) == Closure(Kids(n), NumNodes)
OnCycle(n) == n \in Descendants(n)
ReachesCycle(n) == \E m \in {n} \cup Descendants(n) : OnCycle(m)
ReachesBare(n) == Descendants(n) \cap Bare # {}

DrawOf(S) == call.op = "draw" /\ call.self \in S

---------------------------------------------------------------------------
(* C1: draw() of a composite visits the children in the order the add calls
   gave them, one child's whole output before the next child's: the lines
   logged so far are always a prefix of the depth-first left-to-right
   concatenation of the tree built by the add calls, and are exactly that
   concatenation when draw() returns. *)
DrawInInsertionOrder ==
    /\ \A c \in Containers : children[c] = inserted[c]
    /\ (DrawOf(Nodes) /\ ~ReachesCycle(call.self)) =>
          /\ IsPrefix(out, DepthFirst(call.self, NumNodes))
          /\ result = "ok" => out = DepthFirst(call.self, NumNodes)

\* a nested tree drawn to its end: helloView = [nestedView, hello], nestedView = [world]
DrawInInsertionOrderWitness ==
    /\ DrawOf({"helloView"})
    /\ result = "ok"
    /\ children["helloView"] = <<"nestedView", "hello">>
    /\ children["nestedView"] = <<"world">>
    /\ out = <<"NestedStart", "world", "NestedEnd", "hello">>

(* C2: remove(x) on a composite that holds x completes and takes one
   occurrence of x out of the child sequence, the other children keeping
   their order. *)
RemoveTakesChildOut ==
    (call.op = "remove" /\ call.self \in Containers
        /\ \E i \in 1..Len(before[call.self]) : before[call.self][i] = call.arg) =>
       /\ result = "ok"
       /\ \E i \in 1..Len(before[call.self]) :
             /\ before[call.self][i] = call.arg
             /\ children[call.self] =
                   SubSeq(before[call.self], 1, i - 1)
                      \o SubSeq(before[call.self], i + 1, Len(before[call.self]))

(* C3: draw() of a DecoratorComposite logs "NestedStart" first, then what its
   children log in insertion order, then "NestedEnd" last: nothing precedes
   the start marker, the output of a draw() that returned is exactly start
   marker + children's output + end marker, and with no children it is the
   two markers. *)
DecoratorWrapsChildren ==
    DrawOf(Decorators) =>
       /\ out # <<>> => out[1] = "NestedStart"
       /\ ~ReachesCycle(call.self) =>
             IsPrefix(out, <<"NestedStart">>
                              \o DepthFirstSeq(inserted[call.self], NumNodes)
                              \o <<"NestedEnd">>)
       /\ result = "ok" =>
             /\ out = <<"NestedStart">>
                         \o DepthFirstSeq(inserted[call.self], NumNodes)
                         \o <<"NestedEnd">>
             /\ children[call.self] = <<>> => out = <<"NestedStart", "NestedEnd">>

DecoratorWrapsChildrenWitness ==
    /\ DrawOf(Decorators)
    /\ result = "ok"
    /\ out = <<"NestedStart", "hello", "world", "NestedEnd">>
    /\ children[call.self] = <<"helloView">>

(* C7: the iterator of a composite yields the direct children only, in
   insertion order, each occurrence once, and then ends; a new iteration
   starts before the first child; iterating leaves every child sequence as
   the add calls made it. *)
IterationIsShallow ==
    /\ iter.target # "none" =>
          /\ iter.target \in Containers
          /\ Len(yielded) = iter.idx
          /\ IsPrefix(yielded, inserted[iter.target])
          /\ iter.done => yielded = inserted[iter.target]
          /\ \A c \in Containers : children[c] = inserted[c]
    /\ (call.op = "iterator" /\ result = "ok") => (iter.idx = 0 /\ yielded = <<>>)

\* the loop over nestedView ended having yielded helloView, not helloView's child
IterationIsShallowWitness ==
    /\ iter.target = "nestedView"
    /\ iter.done
    /\ yielded = <<"helloView", "world">>
    /\ children["helloView"] = <<"hello">>

(* C8 as stated: an operation a variant lacks fails and changes no tree
   state (draw() on a bare ViewComponent throws 'Not implemented'; add,
   remove and iteration on a PrintLeaf fail), and draw() on a PrintLeaf, a
   ViewComposite or a DecoratorComposite never ends in 'Not implemented'. *)
UnsupportedOnlyOnBase ==
    /\ DrawOf(Bare) =>
          /\ result \in {"running", "NotImplemented"}
          /\ out = <<>>
    /\ (call.op \in {"add", "remove", "iterator"} /\ call.self \in Leaves) =>
          result = "TypeError"
    /\ result \in {"NotImplemented", "TypeError"} =>
          (children = before /\ text = LeafText /\ iter = NoIter)
    /\ DrawOf(Leaves \cup Containers) => result # "NotImplemented"

(* C8 amended: as above, except that draw() on a ViewComposite or a
   DecoratorComposite does end in 'Not implemented' when a bare
   ViewComponent is among its descendants (the child's error propagates
   uncaught), and only then; draw() on a PrintLeaf never does. *)
UnsupportedPropagates ==
    /\ DrawOf(Bare) =>
          /\ result \in {"running", "NotImplemented"}
          /\ out = <<>>
    /\ (call.op \in {"add", "remove", "iterator"} /\ call.self \in Leaves) =>
          result = "TypeError"
    /\ result \in {"NotImplemented", "TypeError"} =>
          (children = before /\ text = LeafText /\ iter = NoIter)
    /\ DrawOf(Leaves) => result # "NotImplemented"
    /\ (DrawOf(Containers) /\ result = "NotImplemented") => ReachesBare(call.self)
    /\ (DrawOf(Containers) /\ ReachesBare(call.self) /\ ~ReachesCycle(call.self)) =>
          result \in {"running", "NotImplemented"}

\* a composite's draw() ended in the error of its bare child, after a leaf was drawn
UnsupportedPropagatesWitness ==
    /\ DrawOf(Containers)
    /\ result = "NotImplemented"
    /\ children[call.self] = <<"hello", "component">>
    /\ out = <<"hello">>

(* C9: draw() of a PrintLeaf logs exactly one line, its text, and changes
   nothing: whenever such a call has returned (the first or a repeated one)
   the output is that single line, and the leaf texts and every child
   sequence are as before the call. *)
LeafDrawIsPure ==
    DrawOf(Leaves) =>
       /\ result \in {"running", "ok"}
       /\ result = "running" => out = <<>>
       /\ result = "ok" => out = <<LeafText[call.self]>>
       /\ children = before
       /\ text = LeafText

LeafDrawIsPureWitness ==
    /\ DrawOf({"hello"})
    /\ result = "ok"
    /\ out = <<"hello">>
    /\ children["helloView"] = <<"hello", "hello">>

DrawDepthBounded ==
    /\ (call.op = "add" /\ result = "ok") =>
          children[call.self] = Append(before[call.self], call.arg)
    /\ DrawOf(Nodes) =>
          /\ ReachesCycle(call.self) => result # "ok"
          /\ ~ReachesCycle(call.self) =>
                /\ result # "RangeError"
                /\ Len(stack) <= 2 * Cardinality(Containers) + 1

(* C10: add appends whatever it is given, a composite itself or one of its
   ancestors included; a draw() from which no cycle is reachable ends, by
   returning or with a bare child's error, and never exhausts the stack
   (its depth stays within two frames per composite plus one); a draw()
   from which a cycle is reachable never returns. *)
DrawEndsIffAcyclic ==
    /\ []DrawDepthBounded
    /\ (DrawOf(Nodes) /\ result = "running" /\ ~ReachesCycle(call.self))
          ~> (result \in {"ok", "NotImplemented"})

\* helloView holds itself and its draw() ran out of stack
DrawEndsIffAcyclicWitness ==
    /\ DrawOf({"helloView"})
    /\ result = "RangeError"
    /\ children["helloView"] = <<"hello", "helloView">>

---------------------------------------------------------------------------
(* Reference definitions for the price properties *)

Items == Products \cup Collections
NumItems == Cardinality(Items)

Members(S, c) == IF c \in DOMAIN S THEN {S[c][i] : i \in 1..Len(S[c])} ELSE {}

\* the sum of f over the set T
RECURSIVE SumFn(_, _)
SumFn(f, T) ==
    IF T = {} THEN 0
    ELSE LET m == CHOOSE m \in T : TRUE
         IN f[m] + SumFn(f, T \ {m})

\* the number of membership chains that lead from a down to b
RECURSIVE Paths(_, _, _, _)
Paths(S, a, b, fuel) ==
    IF a = b THEN 1
    ELSE IF fuel = 0 THEN 0
    ELSE SumFn([m \in Members(S, a) |-> Paths(S, m, b, fuel - 1)], Members(S, a))

RECURSIVE MemberClosure(_, _, _)
MemberClosure(S, T, k) ==
    IF k = 0 THEN T
    ELSE MemberClosure(S, T \cup UNION {Members(S, m) : m \in T}, k - 1)

\* what c contains, directly or through nested collections
Contents(S, c) == MemberClosure(S, Members(S, c), NumItems)
\* some collection in or under c contains itself
Circular(S, c) == \E m \in {c} \cup Contents(S, c) : m \in Contents(S, m)

\* every product's price, once per membership chain from c to it
PathPrice(S, c) ==
    SumFn([p \in Products |-> ProductPrice[p] * Paths(S, c, p, NumItems)], Products)

DemoUntouched == \A d \in DemoCollections : set[d] = DemoSet[d]

(* C4: every read of a Collection's price returns the sum of the prices of
   the items in its member set at that moment, nested Collections included
   (so each product counts once per membership chain), whatever was added
   since an earlier read; an empty Collection gives 0; the usage script's
   tree gives 1635, 55 and 1690.  A read fails only when a collection is
   reachable from itself. *)
PriceIsSumOfMembers ==
    lastOp.op = "price" =>
       LET c == lastOp.c
           r == lastOp.value
       IN /\ r.ok <=> ~Circular(set, c)
          /\ r.ok =>
                /\ r.v = SumFn([m \in Members(set, c) |-> PriceOf(set, m, 0).v],
                               Members(set, c))
                /\ r.v = PathPrice(set, c)
                /\ Members(set, c) = {} => r.v = 0
          /\ DemoUntouched =>
                /\ c = "electronics" => r = Value(1635)
                /\ c = "textile" => r = Value(55)
                /\ c = "purchase" => r = Value(1690)

\* purchase read after p7 went into textile: 1690 + 25
PriceIsSumOfMembersWitness ==
    /\ lastOp.op = "price"
    /\ lastOp.c = "purchase"
    /\ set["textile"] = <<"p5", "p6", "p7">>
    /\ nops = 1
    /\ lastOp.value = Value(1715)

AddedProduct ==
    /\ lastOp.op = "add"
    /\ lastOp.item \in Products
    /\ lastOp.item \notin Members(setBefore, lastOp.c)

(* C5 as stated: adding a Product of price P to a Collection raises the
   price of that Collection and of every Collection that contains it,
   directly or through nested Collections, by exactly P. *)
AddRaisesEveryAncestorByP ==
    AddedProduct =>
       \A a \in DOMAIN set :
          (PriceOf(setBefore, a, 0).ok
              /\ (a = lastOp.c \/ lastOp.c \in Contents(setBefore, a))) =>
             PriceOf(set, a, 0) =
                Value(PriceOf(setBefore, a, 0).v + ProductPrice[lastOp.item])

(* C5 amended: adding a Product of price P that is not yet a member raises
   the price of the Collection by exactly P, and the price of every other
   Collection by P times the number of membership chains that lead from it
   to that Collection: P for an ancestor with one chain, 2P for one that
   holds the Collection both directly and through another member, 0 for a
   Collection that does not contain it. *)
AddRaisesByChains ==
    AddedProduct =>
       \A a \in DOMAIN set :
          PriceOf(setBefore, a, 0).ok =>
             PriceOf(set, a, 0) =
                Value(PriceOf(setBefore, a, 0).v
                         + ProductPrice[lastOp.item]
                              * Paths(setBefore, a, lastOp.c, NumItems))

\* textile is in purchase and in electronics (itself in purchase); p7 went into textile
AddRaisesByChainsWitness ==
    /\ AddedProduct
    /\ lastOp.c = "textile"
    /\ lastOp.item = "p7"
    /\ "textile" \in Members(setBefore, "electronics")
    /\ PriceOf(set, "purchase", 0) = Value(PriceOf(setBefore, "purchase", 0).v + 50)

\* S with x taken out of c's members
Without(S, c, x) ==
    [S EXCEPT ![c] = SelectSeq(@, LAMBDA m : m # x)]

(* C6: the members of a Collection form a set keyed by object identity: no
   member is held twice; adding a reference that is already a member leaves
   the member set (and so every price) as it was, adding any other
   reference appends it; constructor arguments given twice are members
   once; two distinct Products with the same name and price are both
   members and each adds its price. *)
MembersKeyedByIdentity ==
    /\ \A c \in DOMAIN set :
          \A i, j \in 1..Len(set[c]) : set[c][i] = set[c][j] => i = j
    /\ lastOp.op = "add" =>
          IF lastOp.item \in Members(setBefore, lastOp.c)
          THEN /\ set = setBefore
               /\ \A a \in DOMAIN set : PriceOf(set, a, 0) = PriceOf(setBefore, a, 0)
          ELSE set[lastOp.c] = Append(setBefore[lastOp.c], lastOp.item)
    /\ lastOp.op = "new" =>
          /\ Members(set, lastOp.c) = Range(lastOp.args)
          /\ Len(set[lastOp.c]) = Cardinality(Range(lastOp.args))
    /\ \A c \in DOMAIN set :
          ({"p2", "p7"} \subseteq Members(set, c) /\ PriceOf(set, c, 0).ok) =>
             PriceOf(set, c, 0).v
                = PriceOf(Without(set, c, "p7"), c, 0).v + ProductPrice["p7"]

\* p2 given again to electronics, which holds p2 and its twin p7
MembersKeyedByIdentityWitness ==
    /\ lastOp.op = "add"
    /\ lastOp.c = "electronics"
    /\ lastOp.item = "p2"
    /\ set["electronics"] = <<"p1", "p2", "p3", "p4", "p7">>
    /\ PriceOf(set, "electronics", 0) = Value(1660)

===========================================================================
